---- MODULE Spec2Model ----
(***************************************************************************)
(* Model of the home-inspection backend (src/server.js, the variant that   *)
(* starts at line 369): the LLM configuration store with its validated     *)
(* update, its persistence to llm-config.json, the shared provider client, *)
(* the configuration read/health/test handlers and the translation of      *)
(* provider errors at the analyze, chat and config-test entry points.      *)
(*                                                                         *)
(* JavaScript values are records [k, n, s]: k is the type tag, n the       *)
(* number in tenths (0.3 is 3, 1 is 10, 2 is 20), s the string as a        *)
(* sequence of one-character strings.  Objects (llmConfig, request bodies, *)
(* the persisted file) are functions from the keys present to values.      *)
(***************************************************************************)
EXTENDS Integers, Sequences, FiniteSets, TLC

VARIABLES llmConfig, file, llm, testLlm, req, resp, err, translated, run, res

vars == <<llmConfig, file, llm, testLlm, req, resp, err, translated, run, res>>

storeVars == <<llmConfig, file, llm>>

errVars == <<err, translated>>

streamVars == <<run, res>>

----------------------------------------------------------------------------
(* JavaScript values *)

Num(n) == [k |-> "num", n |-> n, s |-> <<>>]

NaN == [k |-> "nan", n |-> 0, s |-> <<>>]

Str(s) == [k |-> "str", n |-> 0, s |-> s]

Bool(b) == [k |-> "bool", n |-> IF b THEN 1 ELSE 0, s |-> <<>>]

Null == [k |-> "null", n |-> 0, s |-> <<>>]

Obj == [k |-> "obj", n |-> 0, s |-> <<>>]

Undefined == [k |-> "undefined", n |-> 0, s |-> <<>>]

EmptyObject == [key \in {} |-> Null]

Has(o, key) == key \in DOMAIN o

\* o[key] of a JavaScript object: undefined when the key is absent
Get(o, key) == IF key \in DOMAIN o THEN o[key] ELSE Undefined

\* typeof v === "string"
IsString(v) == v.k = "str"

\* JavaScript truthiness, as used by `if (v)`, `v || w`, `v && w`
Truthy(v) ==
  CASE v.k = "num" -> v.n # 0
    [] v.k = "nan" -> FALSE
    [] v.k = "str" -> Len(v.s) > 0
    [] v.k = "bool" -> v.n = 1
    [] v.k = "null" -> FALSE
    [] v.k = "undefined" -> FALSE
    [] OTHER -> TRUE

\* Boolean(v)
ToBoolean(v) == Bool(Truthy(v))

Digits == <<"0", "1", "2", "3", "4", "5", "6", "7", "8", "9">>

IsDigit(c) == \E i \in 1..10 : Digits[i] = c

DigitValue(c) == (CHOOSE i \in 1..10 : Digits[i] = c) - 1

RECURSIVE DigitsValue(_)
\* value of a non-empty sequence of digit characters
DigitsValue(s) ==
  IF Len(s) = 0 THEN 0
  ELSE 10 * DigitsValue(SubSeq(s, 1, Len(s) - 1)) + DigitValue(s[Len(s)])

AllDigits(s) == \A i \in 1..Len(s) : IsDigit(s[i])

\* Number("...") of a string: "" is 0, "d+" and "d+.d" are decimal numbers
\* (in tenths), anything else is NaN
StringToNumber(s) ==
  IF Len(s) = 0 THEN Num(0)
  ELSE IF AllDigits(s) THEN Num(10 * DigitsValue(s))
  ELSE IF /\ Len(s) >= 3
          /\ s[Len(s) - 1] = "."
          /\ AllDigits(SubSeq(s, 1, Len(s) - 2))
          /\ IsDigit(s[Len(s)])
       THEN Num(10 * DigitsValue(SubSeq(s, 1, Len(s) - 2)) + DigitValue(s[Len(s)]))
  ELSE NaN

\* Number(v)
ToNumber(v) ==
  CASE v.k = "num" -> v
    [] v.k = "nan" -> NaN
    [] v.k = "str" -> StringToNumber(v.s)
    [] v.k = "bool" -> Num(10 * v.n)
    [] v.k = "null" -> Num(0)
    [] OTHER -> NaN

UpperAlpha == <<"A", "B", "C", "D", "E", "F", "G", "H", "I", "J", "K", "L", "M",
                "N", "O", "P", "Q", "R", "S", "T", "U", "V", "W", "X", "Y", "Z">>

LowerAlpha == <<"a", "b", "c", "d", "e", "f", "g", "h", "i", "j", "k", "l", "m",
                "n", "o", "p", "q", "r", "s", "t", "u", "v", "w", "x", "y", "z">>

LowerChar(c) ==
  IF \E i \in 1..26 : UpperAlpha[i] = c
  THEN LowerAlpha[CHOOSE i \in 1..26 : UpperAlpha[i] = c]
  ELSE c

\* String.prototype.toLowerCase
ToLowerCase(s) == [i \in 1..Len(s) |-> LowerChar(s[i])]

\* String.prototype.includes
Includes(s, sub) ==
  \E i \in 0..(Len(s) - Len(sub)) : SubSeq(s, i + 1, i + Len(sub)) = sub

\* Object.assign({}, a, b)
ObjectAssign(a, b) ==
  [key \in (DOMAIN a) \cup (DOMAIN b) |-> IF key \in DOMAIN b THEN b[key] ELSE a[key]]

\* delete o[key]
Delete(o, key) == [x \in (DOMAIN o) \ {key} |-> o[x]]

\* JSON.parse(JSON.stringify(v)) of one value: NaN is written as null
JsonValue(v) == IF v.k = "nan" THEN Null ELSE v

\* JSON.parse(JSON.stringify(o)) of an object of such values: keys whose value
\* is undefined are not written
JsonRoundTrip(o) ==
  [key \in {x \in DOMAIN o : o[x].k # "undefined"} |-> JsonValue(o[key])]

----------------------------------------------------------------------------
(* Configuration store: defaults, startup load, provider client *)

\* the built-in persona text, one token standing for the literal
SYSTEM_PROMPT == <<"SYSTEM_PROMPT">>

\* process.env.OPENAI_API_KEY
EnvApiKey == Str(<<"env-key">>)

GPT4oMini == <<"g", "p", "t", "-", "4", "o", "-", "m", "i", "n", "i">>

O1Upper == <<"O", "1">>

O4Mini == <<"o", "4", "-", "m", "i", "n", "i">>

GPT5 == <<"g", "p", "t", "-", "5">>

DefaultLlmConfig ==
  [key \in {"modelName", "streaming", "temperature", "topP", "systemPrompt", "chatPrompt"} |->
     CASE key = "modelName" -> Str(GPT4oMini)
       [] key = "streaming" -> Bool(TRUE)
       [] key = "temperature" -> Num(3)
       [] key = "topP" -> Num(10)
       [] key = "systemPrompt" -> Str(SYSTEM_PROMPT)
       [] OTHER -> Null]

NoFile == [exists |-> FALSE, data |-> EmptyObject]

\* the startup load: defaults overlaid with the parsed file, chatPrompt
\* re-derived with `parsed.chatPrompt || null`
LoadConfig(f) ==
  IF f.exists
  THEN LET parsed == f.data
           merged == ObjectAssign(DefaultLlmConfig, parsed)
           cp == Get(parsed, "chatPrompt")
       IN [merged EXCEPT !["chatPrompt"] = IF Truthy(cp) THEN cp ELSE Null]
  ELSE DefaultLlmConfig

\* modelName ? modelName.toLowerCase() : ""
ModelLower(modelName) ==
  IF Truthy(modelName) THEN ToLowerCase(modelName.s) ELSE <<>>

IsOSeriesModel(modelLower) ==
  \/ Includes(modelLower, <<"o", "1">>)
  \/ Includes(modelLower, <<"o", "1", "-", "p", "r", "e", "v", "i", "e", "w">>)
  \/ Includes(modelLower, <<"o", "1", "-", "m", "i", "n", "i">>)
  \/ Includes(modelLower, <<"o", "3">>)
  \/ Includes(modelLower, <<"o", "3", "-", "m", "i", "n", "i">>)
  \/ Includes(modelLower, <<"o", "3", "-", "p", "r", "o">>)
  \/ Includes(modelLower, <<"o", "4", "-", "m", "i", "n", "i">>)

IsGPT5Model(modelLower) ==
  \/ Includes(modelLower, <<"g", "p", "t", "-", "5">>)
  \/ Includes(modelLower, <<"g", "p", "t", "-", "5", "-", "m", "i", "n", "i">>)
  \/ Includes(modelLower, <<"g", "p", "t", "-", "5", "-", "n", "a", "n", "o">>)
  \/ Includes(modelLower, <<"g", "p", "t", "-", "5", "-", "p", "r", "o">>)
  \/ Includes(modelLower, <<"g", "p", "t", "-", "5", "-", "c", "o", "d", "e", "x">>)
  \/ Includes(modelLower, <<"g", "p", "t", "-", "5", "-", "c", "h", "a", "t">>)

\* the credential handed to the shared ChatOpenAI instance
LlmApiKey(cfg) == EnvApiKey

\* initLlm with the temperature fixed at the built-in 0.3 instead of read
\* from the configuration
InitLlmFixedTemperature(cfg) ==
  LET base == [key \in {"openAIApiKey", "modelName", "streaming", "temperature", "systemPrompt"} |->
                 CASE key = "openAIApiKey" -> LlmApiKey(cfg)
                   [] key = "modelName" -> Get(cfg, "modelName")
                   [] key = "streaming" -> ToBoolean(Get(cfg, "streaming"))
                   [] key = "temperature" -> Num(3)
                   [] OTHER -> Get(cfg, "systemPrompt")]
  IN IF ~IsGPT5Model(ModelLower(Get(cfg, "modelName")))
     THEN ObjectAssign(base, [key \in {"topP"} |-> ToNumber(Get(cfg, "topP"))])
     ELSE base

\* initLlm: the constructor argument of the shared ChatOpenAI instance
InitLlm(cfg) ==
  LET base == [key \in {"openAIApiKey", "modelName", "streaming", "temperature", "systemPrompt"} |->
                 CASE key = "openAIApiKey" -> LlmApiKey(cfg)
                   [] key = "modelName" -> Get(cfg, "modelName")
                   [] key = "streaming" -> ToBoolean(Get(cfg, "streaming"))
                   [] key = "temperature" -> ToNumber(Get(cfg, "temperature"))
                   [] OTHER -> Get(cfg, "systemPrompt")]
  IN IF ~IsGPT5Model(ModelLower(Get(cfg, "modelName")))
     THEN ObjectAssign(base, [key \in {"topP"} |-> ToNumber(Get(cfg, "topP"))])
     ELSE base

\* `if (!llmConfig.systemPrompt) llmConfig.systemPrompt = SYSTEM_PROMPT`, run
\* once at startup after initLlm()
EnsureSystemPrompt(cfg) ==
  IF ~Truthy(Get(cfg, "systemPrompt"))
  THEN ObjectAssign(cfg, [key \in {"systemPrompt"} |-> Str(SYSTEM_PROMPT)])
  ELSE cfg

NoRequest == [op |-> "none", body |-> EmptyObject]

NoResponse == [op |-> "none", status |-> 0, config |-> EmptyObject, error |-> <<>>]

NoError == [status |-> 0, code |-> "", param |-> "", message |-> <<>>, responseMessage |-> <<>>]

\* no analyze, chat or config-test request is in flight.  Of a request in
\* flight: op is the entry point, pc the await the handler is suspended at
\* ("opening": the provider call that returns the stream, "streaming": the
\* for-await loop, "invoking": the one-shot call; "done": the handler returned,
\* "crashed": it ended with an exception nobody caught), body the request body,
\* client the constructor argument of the client the call goes through, prompt
\* the resolved system prompt, files the uploaded temp files, attempted those
\* fs.unlinkSync was called on, removed those it removed, content the
\* fragments the provider's stream has yielded so far, timedOut whether the
\* 15 s timer of the test has fired, failed whether an exception was thrown.
NoRun ==
  [op |-> "none", pc |-> "idle", path |-> "", body |-> EmptyObject, client |-> EmptyObject,
   prompt |-> Undefined, files |-> {}, attempted |-> {}, removed |-> {},
   content |-> <<>>, timedOut |-> FALSE, failed |-> FALSE, messages |-> <<>>]

\* the http.ServerResponse of the request in flight: statusCode is 200 until
\* res.status() is called, body the pieces written, json the object passed
\* to res.json()
NoRes == [status |-> 200, headersSent |-> FALSE, body |-> <<>>, json |-> EmptyObject, ended |-> FALSE]

\* the process image right after the top-level code of server.js has run
StartupStore(f) ==
  /\ llmConfig = EnsureSystemPrompt(LoadConfig(f))
  /\ llm = InitLlm(LoadConfig(f))
  /\ file = f

Init ==
  /\ StartupStore(NoFile)
  /\ testLlm = EmptyObject
  /\ req = NoRequest
  /\ resp = NoResponse
  /\ err = NoError
  /\ translated = EmptyObject
  /\ run = NoRun
  /\ res = NoRes

----------------------------------------------------------------------------
(* PUT /api/llm-config: validation *)

Allowed ==
  {"systemPrompt", "modelName", "temperature", "topP", "streaming", "openAIApiKey", "chatPrompt"}

\* the loop copying the allowed own properties of req.body into updates
PickAllowed(body) == [key \in (DOMAIN body) \cap Allowed |-> body[key]]

\* Number.isNaN(t) || t < lo || t > hi
OutOfRange(t, lo, hi) == t.k = "nan" \/ t.n < lo \/ t.n > hi

\* the error of the basic validation, <<>> when it passes
BasicValidationError(updates) ==
  IF Truthy(Get(updates, "modelName")) /\ ~IsString(Get(updates, "modelName"))
  THEN <<"modelName must be a string">>
  ELSE IF Truthy(Get(updates, "systemPrompt")) /\ ~IsString(Get(updates, "systemPrompt"))
  THEN <<"systemPrompt must be a string">>
  ELSE IF Has(updates, "chatPrompt") /\ ~IsString(updates["chatPrompt"])
  THEN <<"chatPrompt must be a string">>
  ELSE IF Has(updates, "temperature") /\ OutOfRange(ToNumber(updates["temperature"]), 0, 20)
  THEN <<"temperature must be a number between 0 and 2">>
  ELSE IF Has(updates, "topP") /\ OutOfRange(ToNumber(updates["topP"]), 0, 10)
  THEN <<"topP must be a number between 0 and 1">>
  ELSE <<>>

\* updates.temperature = t, updates.topP = p, updates.streaming = Boolean(...)
CoerceUpdates(updates) ==
  [key \in DOMAIN updates |->
     CASE key = "temperature" -> ToNumber(updates[key])
       [] key = "topP" -> ToNumber(updates[key])
       [] key = "streaming" -> ToBoolean(updates[key])
       [] OTHER -> updates[key]]

\* const modelName = updates.modelName || llmConfig.modelName
EffectiveModelName(updates, cfg) ==
  IF Truthy(Get(updates, "modelName")) THEN updates["modelName"] ELSE Get(cfg, "modelName")

\* the isOSeriesModel branch with the temperature check left out
OSeriesErrorTopPOnly(updates) ==
  IF Has(updates, "topP") /\ updates["topP"] # Num(10)
  THEN <<"Model only supports topP=1. Other values are not allowed.">>
  ELSE <<>>

\* the isOSeriesModel branch: its error, <<>> when none
OSeriesError(updates) ==
  IF Has(updates, "temperature") /\ updates["temperature"] # Num(10)
  THEN <<"Model only supports temperature=1. Other values are not allowed.">>
  ELSE IF Has(updates, "topP") /\ updates["topP"] # Num(10)
  THEN <<"Model only supports topP=1. Other values are not allowed.">>
  ELSE <<>>

\* the isOSeriesModel branch without the auto-set of missing values
OSeriesDefaultsNone(updates) == updates

\* the isOSeriesModel branch: temperature and topP set to 1 when not provided
OSeriesDefaults(updates) ==
  ObjectAssign([key \in {"temperature", "topP"} |-> Num(10)], updates)

\* the isGPT5Model branch: its error, <<>> when none
GPT5Error(updates) ==
  IF Has(updates, "temperature") /\ updates["temperature"] # Num(10)
  THEN <<"Model only supports temperature=1. Other values are not allowed.">>
  ELSE <<>>

\* the isGPT5Model branch without the auto-set of a missing temperature
GPT5DefaultsKeepTemperature(updates) == Delete(updates, "topP")

\* the isGPT5Model branch: temperature set to 1 when not provided, topP
\* deleted from updates
GPT5Defaults(updates) ==
  Delete(ObjectAssign([key \in {"temperature"} |-> Num(10)], updates), "topP")

\* the model-specific error for the coerced updates, <<>> when none
ModelSpecificError(updates, cfg) ==
  LET modelLower == ModelLower(EffectiveModelName(updates, cfg))
  IN IF IsOSeriesModel(modelLower) THEN OSeriesError(updates)
     ELSE IF IsGPT5Model(modelLower) THEN GPT5Error(updates)
     ELSE <<>>

\* the updates as they stand when the handler reaches `// Apply updates`
ModelSpecificUpdates(updates, cfg) ==
  LET modelLower == ModelLower(EffectiveModelName(updates, cfg))
  IN IF IsOSeriesModel(modelLower) THEN OSeriesDefaults(updates)
     ELSE IF IsGPT5Model(modelLower) THEN GPT5Defaults(updates)
     ELSE updates

\* the validation of one request body against the current configuration:
\* status 400 with the error, or status 200 with the updates to apply
ValidateUpdate(cfg, body) ==
  LET picked == PickAllowed(body)
      basic == BasicValidationError(picked)
      coerced == CoerceUpdates(picked)
      specific == ModelSpecificError(coerced, cfg)
  IN IF basic # <<>> THEN [status |-> 400, error |-> basic, updates |-> picked]
     ELSE IF specific # <<>> THEN [status |-> 400, error |-> specific, updates |-> coerced]
     ELSE [status |-> 200, error |-> <<>>, updates |-> ModelSpecificUpdates(coerced, cfg)]

\* llmConfig assigned before the validation has returned
CommitUpdateAlways(cfg, r) == ObjectAssign(cfg, r.updates)

\* llmConfig after the handler: untouched on a 400 return, else
\* Object.assign({}, llmConfig, updates)
CommitUpdate(cfg, r) ==
  IF r.status = 400 THEN cfg ELSE ObjectAssign(cfg, r.updates)

\* configToSave without the delete of the credential
ConfigToSaveWithKey(cfg) == cfg

\* configToSave as written to llm-config.json
ConfigToSave(cfg) == Delete(cfg, "openAIApiKey")

\* fs.writeFileSync(CONFIG_PATH, JSON.stringify(configToSave)), read back
PersistConfig(cfg) == [exists |-> TRUE, data |-> JsonRoundTrip(ConfigToSave(cfg))]

\* safeConfig: `if (safeConfig.openAIApiKey) delete safeConfig.openAIApiKey`
SafeConfig(cfg) ==
  IF Truthy(Get(cfg, "openAIApiKey")) THEN Delete(cfg, "openAIApiKey") ELSE cfg

\* res.json({ success: true, config: safeConfig }) as the client parses it
ConfigResponse(op, cfg) ==
  [op |-> op, status |-> 200, config |-> JsonRoundTrip(SafeConfig(cfg)), error |-> <<>>]

ErrorResponse(op, status, error) ==
  [op |-> op, status |-> status, config |-> EmptyObject, error |-> error]

----------------------------------------------------------------------------
(* Requests *)

\* a request body carries at most this many fields
MaxBodyFields == 2

\* the values a client may send for one field of a PUT /api/llm-config body
FieldValues(key) ==
  CASE key = "modelName" ->
         {Str(GPT4oMini), Str(O1Upper), Str(O4Mini), Str(GPT5), Null, Num(50)}
    [] key = "temperature" -> {Num(5), Num(10), Num(21), Str(<<"a">>)}
    [] key = "topP" -> {Num(9), Num(10), Num(11)}
    [] key = "streaming" -> {Bool(TRUE), Bool(FALSE)}
    [] key = "systemPrompt" -> {Str(<<"X">>), Num(50)}
    [] key = "openAIApiKey" -> {Str(<<"s", "k">>), Str(<<>>)}
    [] OTHER -> {Str(<<"T">>), Null}

AllFieldValues == UNION {FieldValues(key) : key \in Allowed}

Bodies ==
  UNION {{b \in [K -> AllFieldValues] : \A key \in K : b[key] \in FieldValues(key)} :
           K \in {K \in SUBSET Allowed : Cardinality(K) <= MaxBodyFields}}

----------------------------------------------------------------------------
(* Handlers of the configuration store *)

\* the persist step with a failing write that leaves the file truncated away
StoreConfigTruncating(f, cfg, diskOk) == IF diskOk THEN PersistConfig(cfg) ELSE NoFile

\* the persist step inside its try/catch: a failing fs.writeFileSync is
\* logged and the file is as it was
StoreConfig(f, cfg, diskOk) == IF diskOk THEN PersistConfig(cfg) ELSE f

\* app.put("/api/llm-config"): one synchronous run of the handler; diskOk is
\* whether fs.writeFileSync succeeds
PutConfig(body, diskOk) ==
  /\ req.op = "none"
  /\ LET r == ValidateUpdate(llmConfig, body)
         newConfig == CommitUpdate(llmConfig, r)
     IN IF r.status = 400
        THEN /\ llmConfig' = newConfig
             /\ UNCHANGED <<file, llm>>
             /\ resp' = ErrorResponse("PUT", 400, r.error)
        ELSE /\ llmConfig' = newConfig
             /\ file' = StoreConfig(file, newConfig, diskOk)
             /\ llm' = InitLlm(newConfig)
             /\ resp' = ConfigResponse("PUT", newConfig)
  /\ req' = [op |-> "PUT", body |-> body]
  /\ UNCHANGED <<testLlm, err, translated, run, res>>

\* app.get("/api/llm-config")
GetConfig ==
  /\ req.op = "none"
  /\ req' = [op |-> "GET", body |-> EmptyObject]
  /\ resp' = ConfigResponse("GET", llmConfig)
  /\ UNCHANGED <<llmConfig, file, llm, testLlm, err, translated, run, res>>

\* the llm object of the /health response as the client parses it
HealthLlm(cfg) ==
  JsonRoundTrip([key \in {"model", "temperature", "topP"} |->
                   CASE key = "model" -> Get(cfg, "modelName")
                     [] key = "temperature" -> Get(cfg, "temperature")
                     [] OTHER -> Get(cfg, "topP")])

\* app.get("/health")
Health ==
  /\ req.op = "none"
  /\ req' = [op |-> "HEALTH", body |-> EmptyObject]
  /\ resp' = [op |-> "HEALTH", status |-> 200, config |-> HealthLlm(llmConfig), error |-> <<>>]
  /\ UNCHANGED <<llmConfig, file, llm, testLlm, err, translated, run, res>>

\* the exchange ends: the response has been sent and the request is dropped
Complete ==
  /\ req.op # "none"
  /\ req' = NoRequest
  /\ resp' = NoResponse
  /\ testLlm' = EmptyObject
  /\ UNCHANGED <<llmConfig, file, llm, err, translated, run, res>>

\* the process is restarted: the top-level code runs again over the file
\* the previous run left behind
Restart ==
  /\ req.op = "none"
  /\ llmConfig' = EnsureSystemPrompt(LoadConfig(file))
  /\ llm' = InitLlm(LoadConfig(file))
  /\ UNCHANGED <<file, testLlm, req, resp, err, translated, run, res>>

----------------------------------------------------------------------------
(* Translation of provider errors.  A provider error is a record: status   *)
(* (0 when unset), code and param ("" when unset), message and             *)
(* responseMessage (error.response.data.error.message) as sequences of     *)
(* text pieces, <<>> when unset or empty.                                  *)

\* "image_url is only supported by certain models"
VisionMarker == <<"image_url", " is only supported by certain models">>

\* `${n}` of a number held in tenths
NumberToString(n) ==
  IF n % 10 = 0 THEN <<ToString(n \div 10)>>
  ELSE <<ToString(n \div 10), ".", ToString(n % 10)>>

\* `${v}` inside a template literal
TemplateString(v) ==
  CASE v.k = "num" -> NumberToString(v.n)
    [] v.k = "nan" -> <<"NaN">>
    [] v.k = "str" -> v.s
    [] v.k = "bool" -> IF v.n = 1 THEN <<"true">> ELSE <<"false">>
    [] v.k = "null" -> <<"null">>
    [] v.k = "undefined" -> <<"undefined">>
    [] OTHER -> <<"[object Object]">>

AnalyzeOrgMessage == <<"ORGANIZATION VERIFICATION REQUIRED", "TIP: You can disable streaming in the LLM Configuration UI to use this model immediately.">>

AnalyzeTemperatureMessage(cfg) ==
  <<"This model only supports temperature=1. Current configuration: ">>
    \o TemplateString(Get(cfg, "temperature"))

TopPMessage == <<"This model does not support the top_p parameter.">>

ApiKeyMessage == <<"Invalid API key. Please check your OpenAI API key in .env file.">>

RateLimitMessage == <<"Rate limit exceeded. Please wait a moment and try again.">>

UnavailableMessage == <<"OpenAI service is temporarily unavailable. Please try again later.">>

\* the catch block of app.post("/api/analyze"): errorMessage
AnalyzeErrorMessage(e, cfg) ==
  LET raw == IF e.message # <<>> THEN e.message ELSE <<"Unknown error occurred">>
  IN IF e.status = 400
     THEN IF e.code = "unsupported_value" /\ e.param = "stream" THEN AnalyzeOrgMessage
          ELSE IF e.code = "unsupported_value" /\ e.param = "temperature"
          THEN AnalyzeTemperatureMessage(cfg)
          ELSE IF e.code = "unsupported_parameter" /\ e.param = "top_p" THEN TopPMessage
          ELSE raw
     ELSE IF e.status = 401 THEN ApiKeyMessage
     ELSE IF e.status = 429 THEN RateLimitMessage
     ELSE IF e.status = 503 THEN UnavailableMessage
     ELSE raw

ChatVisionMessage(e) ==
  <<"This model does NOT support vision/image analysis. ",
    "Please select a vision-capable model (e.g. gpt-4o, gpt-4o-mini, gpt-4-vision-preview). ",
    "Original error: ">> \o e.message

ChatOrgMessage ==
  <<"ORGANIZATION VERIFICATION REQUIRED FOR STREAMING.",
    "Go to https://platform.openai.com/settings/organization/general to verify your organization, or disable streaming in the configuration to proceed.">>

\* the inner catch of app.post("/api/chat") (image path): errorMessage
ChatImageErrorMessage(e) ==
  IF e.message # <<>> /\ Includes(e.message, VisionMarker) THEN ChatVisionMessage(e)
  ELSE IF e.status = 400 /\ e.code = "unsupported_value" /\ e.param = "stream"
  THEN ChatOrgMessage
  ELSE IF e.message # <<>> THEN e.message
  ELSE <<"Unknown error">>

\* the outer catch of app.post("/api/chat") (template path): errorMessage
ChatTemplateErrorMessage(e) ==
  IF e.responseMessage # <<>> THEN e.responseMessage
  ELSE IF e.message # <<>> THEN e.message
  ELSE <<"Unknown error">>

TestVisionMessage(e) ==
  <<"This model does NOT support vision/image analysis.",
    "This app requires image analysis for home inspections. Please select a vision-capable model like:",
    "GPT-4o (recommended)", "GPT-4o-mini", "GPT-4 Turbo with Vision", "GPT-4 Vision Preview",
    "Original error: ">> \o e.message

\* the catch block of app.post("/api/llm-config/test"): errorMessage
TestErrorMessage(e) ==
  IF e.message # <<>> /\ Includes(e.message, VisionMarker) THEN TestVisionMessage(e)
  ELSE IF e.message # <<>> THEN e.message
  ELSE <<"Unknown error occurred">>

ErrorStatuses == {0, 400, 401, 429, 500, 503}

ErrorCodes == {"", "unsupported_value", "unsupported_parameter", "invalid_api_key"}

ErrorParams == {"", "stream", "temperature", "top_p"}

ErrorMessages ==
  {<<>>, <<"provider said no">>,
   <<"Invalid content type. ", "image_url", " is only supported by certain models", ".">>}

\* the errors the provider call may throw
ProviderErrors ==
  [status : ErrorStatuses, code : ErrorCodes, param : ErrorParams,
   message : ErrorMessages, responseMessage : {<<>>, <<"response data message">>}]

\* the provider call of an analyze request throws err
AnalyzeCatch ==
  /\ ~Has(translated, "analyze")
  /\ translated' = ObjectAssign(translated, [site \in {"analyze"} |-> AnalyzeErrorMessage(err, llmConfig)])
  /\ UNCHANGED <<llmConfig, file, llm, testLlm, req, resp, err, run, res>>

\* the provider call of a chat request with images throws err
ChatImageCatch ==
  /\ ~Has(translated, "chatImage")
  /\ translated' = ObjectAssign(translated, [site \in {"chatImage"} |-> ChatImageErrorMessage(err)])
  /\ UNCHANGED <<llmConfig, file, llm, testLlm, req, resp, err, run, res>>

\* the provider call of a chat request without images throws err
ChatTemplateCatch ==
  /\ ~Has(translated, "chatTemplate")
  /\ translated' = ObjectAssign(translated, [site \in {"chatTemplate"} |-> ChatTemplateErrorMessage(err)])
  /\ UNCHANGED <<llmConfig, file, llm, testLlm, req, resp, err, run, res>>

\* the provider call of a config-test request throws err
TestCatch ==
  /\ ~Has(translated, "test")
  /\ translated' = ObjectAssign(translated, [site \in {"test"} |-> TestErrorMessage(err)])
  /\ UNCHANGED <<llmConfig, file, llm, testLlm, req, resp, err, run, res>>

InitErr ==
  /\ StartupStore(NoFile)
  /\ testLlm = EmptyObject
  /\ req = NoRequest
  /\ resp = NoResponse
  /\ err \in ProviderErrors
  /\ translated = EmptyObject
  /\ run = NoRun
  /\ res = NoRes

NextErr ==
  \/ AnalyzeCatch
  \/ ChatImageCatch
  \/ ChatTemplateCatch
  \/ TestCatch

\* one provider error reaching each of the four catch blocks
SpecErr == InitErr /\ [][NextErr]_vars

----------------------------------------------------------------------------
(* POST /api/llm-config/test *)

\* Number(x) || fallback
NumberOr(v, fallback) == IF Truthy(ToNumber(v)) THEN ToNumber(v) ELSE fallback

\* the credential handed to the ChatOpenAI instance of the test
TestApiKey(body) == EnvApiKey

\* testLlmConfig
TestLlmConfig(body) ==
  [key \in {"openAIApiKey", "modelName", "streaming", "temperature", "topP"} |->
     CASE key = "openAIApiKey" -> TestApiKey(body)
       [] key = "modelName" -> Get(body, "modelName")
       [] key = "streaming" -> ToBoolean(Get(body, "streaming"))
       [] key = "temperature" -> NumberOr(Get(body, "temperature"), Num(7))
       [] OTHER -> NumberOr(Get(body, "topP"), Num(10))]

\* the config object of the success response
TestEcho(body) ==
  JsonRoundTrip([key \in {"model", "temperature", "topP", "streaming"} |->
                   CASE key = "model" -> Get(body, "modelName")
                     [] key = "temperature" -> TestLlmConfig(body)["temperature"]
                     [] key = "topP" -> TestLlmConfig(body)["topP"]
                     [] OTHER -> TestLlmConfig(body)["streaming"]])

TimeoutError ==
  [status |-> 0, code |-> "", param |-> "",
   message |-> <<"Request timed out after 15 seconds">>, responseMessage |-> <<>>]

\* the candidate configurations a client submits for a test
TestBodies ==
  {EmptyObject,
   [key \in {"modelName", "temperature", "topP", "streaming", "openAIApiKey"} |->
      CASE key = "modelName" -> Str(GPT4oMini)
        [] key = "temperature" -> Num(5)
        [] key = "topP" -> Num(9)
        [] key = "streaming" -> Bool(TRUE)
        [] OTHER -> Str(<<"s", "k">>)],
   [key \in {"modelName", "temperature", "topP", "streaming"} |->
      CASE key = "modelName" -> Str(GPT5)
        [] key = "temperature" -> Num(0)
        [] key = "topP" -> Num(0)
        [] OTHER -> Bool(FALSE)],
   [key \in {"modelName", "temperature", "topP"} |->
      CASE key = "modelName" -> Str(GPT4oMini)
        [] key = "temperature" -> Num(0)
        [] OTHER -> Num(0)]}

\* how the provider call of a test ends: NoError is a completed call
TestOutcomes ==
  {[status |-> 0, code |-> "", param |-> "", message |-> <<>>, responseMessage |-> <<>>],
   TimeoutError,
   [status |-> 400, code |-> "invalid_request_error", param |-> "",
    message |-> <<"Invalid content type. ", "image_url", " is only supported by certain models", ".">>,
    responseMessage |-> <<>>]}

\* app.post("/api/llm-config/test") from the request to its response
TestConfig(body, outcome) ==
  /\ req.op = "none"
  /\ req' = [op |-> "TEST", body |-> body]
  /\ IF ~Truthy(Get(body, "modelName"))
     THEN /\ resp' = ErrorResponse("TEST", 400, <<"Model name is required for testing">>)
          /\ UNCHANGED testLlm
     ELSE /\ testLlm' = TestLlmConfig(body)
          /\ resp' = IF outcome.message = <<>>
                     THEN [op |-> "TEST", status |-> 200, config |-> TestEcho(body), error |-> <<>>]
                     ELSE ErrorResponse("TEST", IF outcome.status # 0 THEN outcome.status ELSE 500,
                                        TestErrorMessage(outcome))
  /\ UNCHANGED <<llmConfig, file, llm, err, translated, run, res>>

Next ==
  \/ \E body \in Bodies : PutConfig(body, TRUE)
  \/ GetConfig
  \/ Health
  \/ \E body \in TestBodies, outcome \in TestOutcomes : TestConfig(body, outcome)
  \/ Complete
  \/ Restart

Spec == Init /\ [][Next]_vars

\* the writes that arrive while the disk may refuse them
DiskBodies ==
  {[key \in {"modelName"} |-> Str(GPT5)],
   [key \in {"temperature"} |-> Num(5)],
   [key \in {"temperature"} |-> Null],
   [key \in {"temperature"} |-> Str(<<"1">>)],
   [key \in {"temperature"} |-> Num(21)],
   [key \in {"topP"} |-> Bool(TRUE)],
   [key \in {"streaming"} |-> Bool(FALSE)],
   [key \in {"systemPrompt"} |-> Str(<<"X">>)],
   [key \in {"chatPrompt"} |-> Str(<<>>)]}

NextDisk ==
  \/ \E body \in DiskBodies, diskOk \in BOOLEAN : PutConfig(body, diskOk)
  \/ GetConfig
  \/ Complete
  \/ Restart

\* the configuration store over a disk whose writes may fail
SpecDisk == Init /\ [][NextDisk]_vars

----------------------------------------------------------------------------
(* The response object of a streaming handler.  status is the status line  *)
(* that is or will be on the wire: it is frozen once the headers have been *)
(* flushed by the first res.write().                                       *)

\* res.write(chunk) putting the chunk in front of what was written before
ResWritePrepending(r, chunk) == [r EXCEPT !.headersSent = TRUE, !.body = <<chunk>> \o @]

\* res.write(chunk): flushes the headers with the status set so far
ResWrite(r, chunk) == [r EXCEPT !.headersSent = TRUE, !.body = Append(@, chunk)]

\* res.end()
ResEnd(r) == [r EXCEPT !.headersSent = TRUE, !.ended = TRUE]

\* res.status(status).send(text) on a response whose headers are not sent
ResSend(r, status, text) ==
  [r EXCEPT !.status = status, !.headersSent = TRUE, !.body = text, !.ended = TRUE]

\* res.status(status).json(object) on a response whose headers are not sent
ResJson(r, status, object) ==
  [r EXCEPT !.status = status, !.headersSent = TRUE, !.json = object, !.ended = TRUE]

\* error.status || 500
StatusOr500(e) == IF e.status # 0 THEN e.status ELSE 500

\* error.type, "" when the error object has no such property
ErrorType(e) == IF "type" \in DOMAIN e THEN e.type ELSE ""

\* v || fallback of an optional string property held as ""
StrOr(s, fallback) == IF s # "" THEN Str(<<s>>) ELSE fallback

\* error.response?.data || null
ErrorDetails(e) == IF e.responseMessage # <<>> THEN Obj ELSE Null

\* the number of fragments one provider stream yields is at most this
MaxFragments == 2

\* chunk.content of one fragment of a provider stream: text, or empty
FragmentContents == {"a", ""}

\* the errors a provider call may throw while a request is in flight: the
\* provider's own (status, code, param, type) and a transport failure
StreamErrors ==
  {[status |-> 400, code |-> "unsupported_value", param |-> "stream", type |-> "invalid_request_error",
    message |-> <<"Your organization must be verified to stream this model.">>,
    responseMessage |-> <<"Your organization must be verified to stream this model.">>],
   [status |-> 400, code |-> "", param |-> "", type |-> "invalid_request_error",
    message |-> <<"Invalid content type. ", "image_url", " is only supported by certain models", ".">>,
    responseMessage |-> <<>>],
   [status |-> 401, code |-> "invalid_api_key", param |-> "", type |-> "invalid_request_error",
    message |-> <<"Incorrect API key provided">>, responseMessage |-> <<>>],
   [status |-> 0, code |-> "", param |-> "", type |-> "",
    message |-> <<"fetch failed">>, responseMessage |-> <<>>]}

----------------------------------------------------------------------------
(* POST /api/analyze, one step per stretch of the handler between awaits *)

\* one request uploads at most this many photos
MaxFiles == 2

\* JSON.parse(req.body.categories) throwing on a malformed field
CategoriesError ==
  [status |-> 0, code |-> "", param |-> "", type |-> "",
   message |-> <<"Unexpected token in JSON">>, responseMessage |-> <<>>]

\* fs.readFileSync(img.path) throwing
ReadFileError ==
  [status |-> 0, code |-> "ENOENT", param |-> "", type |-> "",
   message |-> <<"ENOENT: no such file or directory">>, responseMessage |-> <<>>]

\* the forEach over the uploaded files with fs.unlinkSync inside its own
\* try/catch: every file is attempted, those in stuck fail to be removed
CleanupStopsAtFailure(r, stuck) ==
  LET tried == {f \in r.files : \A g \in stuck : f <= g}
  IN [r EXCEPT !.attempted = tried, !.removed = tried \ stuck]

Cleanup(r, stuck) == [r EXCEPT !.attempted = r.files, !.removed = r.files \ stuck]

\* the catch block of the handler, the handler's state: cleanup, then the
\* send, which throws out of the handler when the headers are already sent
AnalyzeCatchRun(r, rs, stuck) ==
  [Cleanup(r, stuck) EXCEPT !.failed = TRUE,
                            !.pc = IF rs.headersSent THEN "crashed" ELSE "done"]

\* the catch block of the handler, the response:
\* res.status(error.status || 500).send("Analysis failed:\n\n" + errorMessage)
AnalyzeCatchRes(rs, e, cfg) ==
  IF rs.headersSent THEN rs
  ELSE ResSend(rs, StatusOr500(e), <<"Analysis failed:\n\n">> \o AnalyzeErrorMessage(e, cfg))

\* the system message fixed to the built-in persona
AnalyzePromptBuiltIn(cfg) == Str(SYSTEM_PROMPT)

\* llmConfig.systemPrompt || SYSTEM_PROMPT
AnalyzePrompt(cfg) ==
  IF Truthy(Get(cfg, "systemPrompt")) THEN Get(cfg, "systemPrompt") ELSE Str(SYSTEM_PROMPT)

\* the provider call the handler makes through the client: llm.stream(messages),
\* whatever the client's streaming flag
AnalyzeCall(client) == "stream"

\* the request arrives with n uploaded photos; the handler runs up to
\* `await llm.stream(messages)`, or into its catch block when the categories
\* field does not parse or a photo cannot be read
AnalyzeStart(n, categoriesOk, readOk, stuck) ==
  /\ run.op = "none"
  /\ stuck \subseteq 1..n
  /\ LET r == [NoRun EXCEPT !.op = "analyze", !.files = 1..n]
     IN IF ~categoriesOk
        THEN /\ run' = AnalyzeCatchRun(r, NoRes, stuck)
             /\ res' = AnalyzeCatchRes(NoRes, CategoriesError, llmConfig)
        ELSE IF n > 0 /\ ~readOk
        THEN /\ run' = AnalyzeCatchRun(r, NoRes, stuck)
             /\ res' = AnalyzeCatchRes(NoRes, ReadFileError, llmConfig)
        ELSE /\ run' = [r EXCEPT !.pc = "opening", !.client = llm, !.path = AnalyzeCall(llm),
                                 !.prompt = AnalyzePrompt(llmConfig)]
             /\ res' = NoRes
  /\ UNCHANGED <<llmConfig, file, llm, testLlm, req, resp, err, translated>>

\* llm.stream(messages) resolves with the stream
AnalyzeOpened ==
  /\ run.op = "analyze" /\ run.pc = "opening"
  /\ run' = [run EXCEPT !.pc = "streaming"]
  /\ UNCHANGED <<llmConfig, file, llm, testLlm, req, resp, err, translated, res>>

\* one turn of the for-await loop: res.write(chunk.content || "")
AnalyzeChunk(content) ==
  /\ run.op = "analyze" /\ run.pc = "streaming"
  /\ Len(run.content) < MaxFragments
  /\ run' = [run EXCEPT !.content = Append(@, content)]
  /\ res' = ResWrite(res, content)
  /\ UNCHANGED <<llmConfig, file, llm, testLlm, req, resp, err, translated>>

\* the stream is exhausted: res.end(), then the cleanup of the photos
AnalyzeEnd(stuck) ==
  /\ run.op = "analyze" /\ run.pc = "streaming"
  /\ stuck \subseteq run.files
  /\ res' = ResEnd(res)
  /\ run' = [Cleanup(run, stuck) EXCEPT !.pc = "done"]
  /\ UNCHANGED <<llmConfig, file, llm, testLlm, req, resp, err, translated>>

\* the provider call throws e, while the stream is being opened or while it
\* is being consumed: the catch block runs
AnalyzeThrows(e, stuck) ==
  /\ run.op = "analyze" /\ run.pc \in {"opening", "streaming"}
  /\ stuck \subseteq run.files
  /\ run' = AnalyzeCatchRun(run, res, stuck)
  /\ res' = AnalyzeCatchRes(res, e, llmConfig)
  /\ UNCHANGED <<llmConfig, file, llm, testLlm, req, resp, err, translated>>

----------------------------------------------------------------------------
(* POST /api/chat.  A template is a string whose pieces are literal text or *)
(* one of the tags below; an array is the value [k |-> "arr", n |-> n,      *)
(* s |-> items] of its n items.  An item of the images array is a record    *)
(* [t, v]: a string v (t = "string"), an object {url: v} (t = "url"), an    *)
(* object {base64: v} (t = "base64"), an object with neither (t = "object") *)
(* or null (t = "null").                                                    *)

Array(items) == [k |-> "arr", n |-> Len(items), s |-> items]

DataUrl == <<"data:", "image/png;base64,", "AAAA">>
Base64Data == <<"QUJD">>

StringItem(v) == [t |-> "string", v |-> v]
UrlItem(v) == [t |-> "url", v |-> v]
Base64Item(v) == [t |-> "base64", v |-> v]
EmptyObjectItem == [t |-> "object", v |-> <<>>]
NullItem == [t |-> "null", v |-> <<>>]

\* an images array of n data URLs
ImageArray(n) == Array([i \in 1..n |-> StringItem(DataUrl)])

\* createImageContent(base64Data, category, index)
CreateImageContent(base64Data) == <<"data:", "image/jpeg;base64,">> \o base64Data

\* img.startsWith("data:")
StartsWithData(v) == Len(v) > 0 /\ v[1] = "data:"

\* the callback of images.map: the url of the image_url part an item becomes,
\* or "null" for an item that becomes null
ImageContent(img) ==
  IF img.t = "null" \/ (img.t = "string" /\ img.v = <<>>) THEN <<"null">>
  ELSE IF img.t = "string"
       THEN IF StartsWithData(img.v) THEN img.v ELSE CreateImageContent(img.v)
  ELSE IF img.t = "url" /\ img.v # <<>> THEN img.v
  ELSE IF img.t = "base64" /\ img.v # <<>> THEN CreateImageContent(img.v)
  ELSE <<"null">>

\* imageContents: images.map(...).filter(Boolean), empty unless images is a
\* non-empty array
ImageContents(images) ==
  IF images.k = "arr" /\ images.n > 0
  THEN SelectSeq([i \in 1..images.n |-> ImageContent(images.s[i])],
                 LAMBDA c : c # <<"null">>)
  ELSE <<>>

\* a message handed to the provider: its role, its text and its image parts
Message(role, content, images) == [role |-> role, content |-> content, images |-> images]

Whitespace == {" ", "\n", "\t"}

\* (msg.content || "").toString() of a turn whose content is a string or null
TurnContent(msg) == IF Truthy(msg.content) THEN msg.content.s ELSE <<>>

\* content.trim() is not the empty string
TrimTruthy(content) == \E i \in 1..Len(content) : content[i] \notin Whitespace

\* conversationHistory.forEach((msg) => ...) from position i on: a turn with
\* content that trims to non-empty pushes a HumanMessage (role user) or an
\* AIMessage (role assistant), any other turn pushes nothing
RECURSIVE PushTurns(_, _, _)
PushTurns(turns, i, pushed) ==
  IF i > Len(turns) THEN pushed
  ELSE LET content == TurnContent(turns[i])
           next == IF TrimTruthy(content) /\ turns[i].role = "user"
                   THEN Append(pushed, Message("human", Str(content), <<>>))
                   ELSE IF TrimTruthy(content) /\ turns[i].role = "assistant"
                   THEN Append(pushed, Message("ai", Str(content), <<>>))
                   ELSE pushed
       IN PushTurns(turns, i + 1, next)

\* historyMessages with the newest turn first
HistoryMessagesNewestFirst(conversationHistory) ==
  IF conversationHistory.k = "arr"
  THEN LET pushed == PushTurns(conversationHistory.s, 1, <<>>)
       IN [i \in 1..Len(pushed) |-> pushed[Len(pushed) + 1 - i]]
  ELSE <<>>

\* historyMessages
HistoryMessages(conversationHistory) ==
  IF conversationHistory.k = "arr" THEN PushTurns(conversationHistory.s, 1, <<>>) ELSE <<>>

\* (value || "").toString() of a string, null or undefined
TextOrEmpty(value) == IF Truthy(value) THEN value ELSE Str(<<>>)

\* the messages of the direct call: the system prompt, the history and one
\* human message with the text and the image parts
ImageMessages(body, resolved) ==
  <<Message("system", resolved, <<>>)>>
    \o HistoryMessages(Get(body, "conversationHistory"))
    \o <<Message("human", TextOrEmpty(Get(body, "message")),
                 ImageContents(Get(body, "images")))>>

\* the messages chatPrompt formats from chainInput: the system prompt, the
\* context message, the history placeholder and the human message
TemplateMessages(body, resolved) ==
  <<Message("system", TextOrEmpty(resolved), <<>>),
    Message("system",
            Str(<<"Context from previous analysis: ">> \o TextOrEmpty(Get(body, "context")).s),
            <<>>)>>
    \o HistoryMessages(Get(body, "conversationHistory"))
    \o <<Message("human", TextOrEmpty(Get(body, "message")), <<>>)>>

\* Array.isArray(images) ? images.length : 0
ImageCount(images) == IF images.k = "arr" THEN images.n ELSE 0

ReportLimit == 8000

\* variables.report, cut to 8000 characters with a marker appended
TruncateReport(report) ==
  IF Len(report) > ReportLimit
  THEN SubSeq(report, 1, ReportLimit) \o <<"\n\n[TRUNCATED]">>
  ELSE report

\* Mustache's HTML escaping of one character of an interpolated value
EscapeHtml(c) ==
  CASE c = "&" -> "&amp;"
    [] c = "<" -> "&lt;"
    [] c = ">" -> "&gt;"
    [] OTHER -> c

\* a tag whose closing braces are missing: Mustache.render throws on it
UnclosedTag == "{{"

\* Mustache's rendering of one piece of a template: {{report}} and
\* {{imageCount}} are interpolated, a tag naming no variable renders as nothing
RenderPiece(piece, variables) ==
  CASE piece = "{{report}}" -> [i \in 1..Len(variables.report) |-> EscapeHtml(variables.report[i])]
    [] piece = "{{imageCount}}" -> <<ToString(variables.imageCount)>>
    [] piece = "{{other}}" -> <<>>
    [] OTHER -> <<piece>>

RECURSIVE MustacheRender(_, _)
\* Mustache.render(template, variables) of a well-formed template
MustacheRender(pieces, variables) ==
  IF Len(pieces) = 0 THEN <<>>
  ELSE RenderPiece(pieces[1], variables) \o MustacheRender(Tail(pieces), variables)

\* renderPromptTemplate: a template that is not a string or does not parse
\* makes Mustache throw, and the template itself is returned
RenderPromptTemplate(template, variables) ==
  LET t == IF Truthy(template) THEN template ELSE Str(<<>>)
      vs == [variables EXCEPT !.report = TruncateReport(@)]
  IN IF ~IsString(t) THEN template
     ELSE IF \E i \in 1..Len(t.s) : t.s[i] = UnclosedTag THEN template
     ELSE Str(MustacheRender(t.s, vs))

\* templateVariables: report is `context || ""`, the images as stringified
TemplateVariables(body) ==
  [report |-> IF Truthy(Get(body, "context")) THEN Get(body, "context").s ELSE <<>>,
   imageCount |-> ImageCount(Get(body, "images"))]

\* resolvedSystemPrompt with the server's chatPrompt consulted before the
\* request's promptOverride
ResolveSystemPromptStoredFirst(body, cfg) ==
  IF Truthy(Get(cfg, "chatPrompt"))
  THEN RenderPromptTemplate(Get(cfg, "chatPrompt"), TemplateVariables(body))
  ELSE IF Truthy(Get(body, "promptOverride"))
  THEN RenderPromptTemplate(Get(body, "promptOverride"), TemplateVariables(body))
  ELSE IF Truthy(Get(body, "systemPrompt")) THEN Get(body, "systemPrompt")
  ELSE IF Truthy(Get(cfg, "systemPrompt")) THEN Get(cfg, "systemPrompt")
  ELSE Str(SYSTEM_PROMPT)

\* resolvedSystemPrompt: the override, else the server's chatPrompt, else the
\* request's systemPrompt; `|| llmConfig.systemPrompt || SYSTEM_PROMPT` after
ResolveSystemPrompt(body, cfg) ==
  LET chosen == IF Truthy(Get(body, "promptOverride"))
                THEN RenderPromptTemplate(Get(body, "promptOverride"), TemplateVariables(body))
                ELSE IF Truthy(Get(cfg, "chatPrompt"))
                THEN RenderPromptTemplate(Get(cfg, "chatPrompt"), TemplateVariables(body))
                ELSE Get(body, "systemPrompt")
  IN IF Truthy(chosen) THEN chosen
     ELSE IF Truthy(Get(cfg, "systemPrompt")) THEN Get(cfg, "systemPrompt")
     ELSE Str(SYSTEM_PROMPT)

\* the logging at the top of the handler calls .substring on message,
\* systemPrompt and context behind `?.`: a TypeError for a present value that
\* is not a string
ChatLoggingThrows(body) ==
  \E key \in {"message", "systemPrompt", "context"} :
    Get(body, key).k \notin {"str", "null", "undefined"}

SubstringError ==
  [status |-> 0, code |-> "", param |-> "", type |-> "",
   message |-> <<"message?.substring is not a function">>, responseMessage |-> <<>>]

\* the JSON object both catch blocks of the handler build
ChatErrorJson(e, message) ==
  [key \in {"success", "error", "errorType", "errorCode", "parameter", "details"} |->
     CASE key = "success" -> Bool(FALSE)
       [] key = "error" -> Str(message)
       [] key = "errorType" -> StrOr(ErrorType(e), Str(<<"unknown">>))
       [] key = "errorCode" -> StrOr(e.code, Null)
       [] key = "parameter" -> StrOr(e.param, Null)
       [] OTHER -> ErrorDetails(e)]

\* the message a failure is reported with: the inner catch translates on the
\* image path, the outer catch on the template path and before the call
ChatErrorMessage(path, e) ==
  IF path = "image" THEN ChatImageErrorMessage(e) ELSE ChatTemplateErrorMessage(e)

\* a catch block of the handler, the handler's state: res.status().json()
\* throws when the headers are already sent; thrown from the inner catch it
\* reaches the outer catch, whose own res.status().json() throws out of the
\* handler
ChatCatchRun(r, rs) ==
  [r EXCEPT !.failed = TRUE, !.pc = IF rs.headersSent THEN "crashed" ELSE "done"]

\* a catch block of the handler, the response
ChatCatchRes(rs, path, e) ==
  IF rs.headersSent THEN rs
  ELSE ResJson(rs, StatusOr500(e), ChatErrorJson(e, ChatErrorMessage(path, e)))

\* the request arrives; the handler runs up to `await llm.stream(messages)`
\* (images) or `await chain.stream(chainInput)` (no images)
ChatStart(body) ==
  /\ run.op = "none"
  /\ LET r == [NoRun EXCEPT !.op = "chat", !.body = body]
     IN IF ChatLoggingThrows(body)
        THEN /\ run' = ChatCatchRun(r, NoRes)
             /\ res' = ChatCatchRes(NoRes, "", SubstringError)
        ELSE LET resolved == ResolveSystemPrompt(body, llmConfig)
                 withImages == Len(ImageContents(Get(body, "images"))) > 0
             IN
             /\ run' = [r EXCEPT !.pc = "opening", !.client = llm,
                                 !.path = IF withImages THEN "image" ELSE "template",
                                 !.prompt = resolved,
                                 !.messages = IF withImages
                                              THEN ImageMessages(body, resolved)
                                              ELSE TemplateMessages(body, resolved)]
             /\ res' = NoRes
  /\ UNCHANGED <<llmConfig, file, llm, testLlm, req, resp, err, translated>>

\* the stream call resolves with the stream
ChatOpened ==
  /\ run.op = "chat" /\ run.pc = "opening"
  /\ run' = [run EXCEPT !.pc = "streaming"]
  /\ UNCHANGED <<llmConfig, file, llm, testLlm, req, resp, err, translated, res>>

\* one turn of the for-await loop: res.write(chunk.content || "")
ChatChunk(content) ==
  /\ run.op = "chat" /\ run.pc = "streaming"
  /\ Len(run.content) < MaxFragments
  /\ run' = [run EXCEPT !.content = Append(@, content)]
  /\ res' = ResWrite(res, content)
  /\ UNCHANGED <<llmConfig, file, llm, testLlm, req, resp, err, translated>>

\* the stream is exhausted: res.end()
ChatEnd ==
  /\ run.op = "chat" /\ run.pc = "streaming"
  /\ res' = ResEnd(res)
  /\ run' = [run EXCEPT !.pc = "done"]
  /\ UNCHANGED <<llmConfig, file, llm, testLlm, req, resp, err, translated>>

\* the provider call throws e, while the stream is being opened or while it
\* is being consumed
ChatThrows(e) ==
  /\ run.op = "chat" /\ run.pc \in {"opening", "streaming"}
  /\ run' = ChatCatchRun(run, res)
  /\ res' = ChatCatchRes(res, run.path, e)
  /\ UNCHANGED <<llmConfig, file, llm, testLlm, req, resp, err, translated>>

\* the bodies a client posts to /api/chat
ChatBodies ==
  {[key \in {"message"} |-> Num(50)]} \cup
  UNION {{b \in [K \cup {"message", "context"} ->
                   {Str(<<"h", "i">>), Str(<<"<">>), Str(<<"C">>), Str(<<"O", "{{report}}">>),
                    Str(<<"{{other}}">>), Str(<<>>), ImageArray(1)}] :
            /\ b["message"] = Str(<<"h", "i">>)
            /\ b["context"] = Str(<<"<">>)
            /\ \A key \in K :
                 b[key] \in CASE key = "systemPrompt" -> {Str(<<"C">>)}
                              [] key = "promptOverride" ->
                                   {Str(<<"O", "{{report}}">>), Str(<<"{{other}}">>), Str(<<>>)}
                              [] OTHER -> {ImageArray(1)}} :
           K \in SUBSET {"systemPrompt", "promptOverride", "images"}}

----------------------------------------------------------------------------
(* POST /api/llm-config/test, one step per stretch of the handler between  *)
(* awaits, with the 15 s timer it arms                                     *)

\* `const testLlm = new ChatOpenAI(testLlmConfig)` binds a local of the
\* handler: the module-level llm keeps the client it holds
LlmAfterTestRebound(shared, testCfg) == testCfg

LlmAfterTest(shared, testCfg) == shared

\* response.content || response.text || "Test completed"
TestResponseText(content) ==
  IF \E i \in 1..Len(content) : content[i] # "" THEN content ELSE <<"Test completed">>

\* the object of the success response
TestSuccessJson(body, content) ==
  [key \in {"success", "message", "response", "config"} |->
     CASE key = "success" -> Bool(TRUE)
       [] key = "message" ->
            Str(<<"Configuration is working! Model supports vision (image analysis).">>)
       [] key = "response" -> Str(TestResponseText(content))
       [] OTHER -> TestEcho(body)]

\* errorResponse of the catch block, parameter and details added when set
TestErrorJson(e) ==
  LET base == [key \in {"success", "error", "errorType", "errorCode", "statusCode", "isVisionError"} |->
                 CASE key = "success" -> Bool(FALSE)
                   [] key = "error" -> Str(TestErrorMessage(e))
                   [] key = "errorType" -> StrOr(ErrorType(e), Str(<<"unknown">>))
                   [] key = "errorCode" -> StrOr(e.code, Str(<<"unknown">>))
                   [] key = "statusCode" -> Num(10 * StatusOr500(e))
                   [] OTHER -> IF e.message = <<>> THEN Str(<<>>)
                               ELSE Bool(Includes(e.message, <<"image_url">>))]
      withParam == IF e.param # "" THEN ObjectAssign(base, [key \in {"parameter"} |-> Str(<<e.param>>)])
                   ELSE base
  IN IF e.responseMessage # <<>> THEN ObjectAssign(withParam, [key \in {"details"} |-> Obj])
     ELSE withParam

\* the request arrives; the handler builds its own client, arms the timer and
\* runs up to the await of Promise.race
TestStart(body) ==
  /\ run.op = "none"
  /\ LET r == [NoRun EXCEPT !.op = "test", !.body = body]
     IN IF ~Truthy(Get(body, "modelName"))
        THEN /\ run' = [r EXCEPT !.pc = "done"]
             /\ res' = ResJson(NoRes, 400,
                               [key \in {"success", "error"} |->
                                  IF key = "success" THEN Bool(FALSE)
                                  ELSE Str(<<"Model name is required for testing">>)])
             /\ llm' = llm
        ELSE /\ run' = [r EXCEPT !.client = TestLlmConfig(body),
                                 !.pc = IF Truthy(TestLlmConfig(body)["streaming"])
                                        THEN "opening" ELSE "invoking"]
             /\ res' = NoRes
             /\ llm' = LlmAfterTest(llm, TestLlmConfig(body))
  /\ UNCHANGED <<llmConfig, file, testLlm, req, resp, err, translated>>

\* testLlm.stream(testMessages) wins the race: the stream is returned
TestOpened ==
  /\ run.op = "test" /\ run.pc = "opening"
  /\ run' = [run EXCEPT !.pc = "streaming"]
  /\ UNCHANGED <<llmConfig, file, llm, testLlm, req, resp, err, translated, res>>

\* one turn of the for-await loop: content += chunk.content || ""
TestChunk(content) ==
  /\ run.op = "test" /\ run.pc = "streaming"
  /\ Len(run.content) < MaxFragments
  /\ run' = [run EXCEPT !.content = Append(@, content)]
  /\ UNCHANGED <<llmConfig, file, llm, testLlm, req, resp, err, translated, res>>

\* the stream is exhausted: the success response is sent
TestEnd ==
  /\ run.op = "test" /\ run.pc = "streaming"
  /\ res' = ResJson(res, 200, TestSuccessJson(run.body, run.content))
  /\ run' = [run EXCEPT !.pc = "done"]
  /\ UNCHANGED <<llmConfig, file, llm, testLlm, req, resp, err, translated>>

\* testLlm.invoke(testMessages) wins the race: the success response is sent
TestInvoked(content) ==
  /\ run.op = "test" /\ run.pc = "invoking"
  /\ res' = ResJson(res, 200, TestSuccessJson(run.body, <<content>>))
  /\ run' = [run EXCEPT !.pc = "done"]
  /\ UNCHANGED <<llmConfig, file, llm, testLlm, req, resp, err, translated>>

\* the catch block: res.status(error.status || 500).json(errorResponse)
TestCatchBlock(r, rs, e) ==
  [run |-> [r EXCEPT !.pc = "done", !.failed = TRUE],
   res |-> ResJson(rs, StatusOr500(e), TestErrorJson(e))]

\* a provider error about the image part that is not the vision-unsupported one
ImageUrlError ==
  [status |-> 400, code |-> "invalid_image_url", param |-> "", type |-> "invalid_request_error",
   message |-> <<"Invalid ", "image_url", ": the image could not be processed.">>,
   responseMessage |-> <<>>]

\* the errors the provider call of a test may throw
TestErrors == StreamErrors \cup {ImageUrlError}

\* the provider call throws e while the stream is being opened, while it is
\* being consumed, or during the one-shot call
TestThrows(e) ==
  /\ run.op = "test" /\ run.pc \in {"opening", "streaming", "invoking"}
  /\ run' = TestCatchBlock(run, res, e).run
  /\ res' = TestCatchBlock(run, res, e).res
  /\ UNCHANGED <<llmConfig, file, llm, testLlm, req, resp, err, translated>>

\* 15000 ms after the handler armed it the timer rejects the timeout
\* promise.  A handler suspended at a Promise.race resumes in its catch block;
\* a handler inside the for-await loop awaits the stream alone and is not
\* resumed
TestTimeout ==
  /\ run.op = "test" /\ run.pc \in {"opening", "streaming", "invoking"}
  /\ ~run.timedOut
  /\ IF run.pc = "streaming"
     THEN /\ run' = [run EXCEPT !.timedOut = TRUE]
          /\ UNCHANGED res
     ELSE /\ run' = [TestCatchBlock(run, res, TimeoutError).run EXCEPT !.timedOut = TRUE]
          /\ res' = TestCatchBlock(run, res, TimeoutError).res
  /\ UNCHANGED <<llmConfig, file, llm, testLlm, req, resp, err, translated>>

\* the exchange is over: the client has the response, or has given up on a
\* response the handler never finished
Release ==
  /\ run.pc \in {"done", "crashed"}
  /\ run' = NoRun
  /\ res' = NoRes
  /\ UNCHANGED <<llmConfig, file, llm, testLlm, req, resp, err, translated>>

\* the configuration writes that arrive while requests are in flight
StreamConfigBodies ==
  {[key \in {"chatPrompt"} |-> Str(<<"T", "{{report}}">>)],
   [key \in {"chatPrompt"} |-> Str(<<"{{other}}">>)],
   [key \in {"systemPrompt"} |-> Str(<<>>)]}

NextStream ==
  \/ \E body \in StreamConfigBodies : PutConfig(body, TRUE)
  \/ Complete
  \/ \E n \in 0..MaxFiles, categoriesOk \in BOOLEAN, readOk \in BOOLEAN, stuck \in SUBSET (1..MaxFiles) :
       AnalyzeStart(n, categoriesOk, readOk, stuck)
  \/ AnalyzeOpened
  \/ \E content \in FragmentContents : AnalyzeChunk(content)
  \/ \E stuck \in SUBSET (1..MaxFiles) : AnalyzeEnd(stuck)
  \/ \E e \in StreamErrors, stuck \in SUBSET (1..MaxFiles) : AnalyzeThrows(e, stuck)
  \/ \E body \in ChatBodies : ChatStart(body)
  \/ ChatOpened
  \/ \E content \in FragmentContents : ChatChunk(content)
  \/ ChatEnd
  \/ \E e \in StreamErrors : ChatThrows(e)
  \/ \E body \in TestBodies : TestStart(body)
  \/ TestOpened
  \/ \E content \in FragmentContents : TestChunk(content)
  \/ TestEnd
  \/ \E content \in FragmentContents : TestInvoked(content)
  \/ \E e \in TestErrors : TestThrows(e)
  \/ TestTimeout
  \/ Release

\* analyze, chat and config-test requests, one in flight at a time, with
\* configuration writes arriving between their steps
SpecStream == Init /\ [][NextStream]_vars

\* the provider refusing the temperature the call was made with
TemperatureError ==
  [status |-> 400, code |-> "unsupported_value", param |-> "temperature", type |-> "invalid_request_error",
   message |-> <<"Unsupported value: 'temperature' does not support this value with this model.">>,
   responseMessage |-> <<>>]

\* the errors of the provider calls that race with configuration writes
RaceErrors ==
  {TemperatureError,
   [status |-> 401, code |-> "invalid_api_key", param |-> "", type |-> "invalid_request_error",
    message |-> <<"Incorrect API key provided">>, responseMessage |-> <<>>]}

\* the longest conversation history submitted
MaxHistory == 2

\* the turns a client submits as conversation history
Turns ==
  {[role |-> "user", content |-> Str(<<"q">>)],
   [role |-> "assistant", content |-> Str(<<"r">>)],
   [role |-> "system", content |-> Str(<<"s">>)],
   [role |-> "user", content |-> Str(<<" ", "\n">>)],
   [role |-> "assistant", content |-> Null]}

\* the histories of at most MaxHistory turns
Histories == UNION {[1..n -> Turns] : n \in 0..MaxHistory}

\* the images arrays a client submits
ImageLists ==
  {<<>>,
   <<StringItem(DataUrl)>>,
   <<StringItem(<<>>), NullItem>>,
   <<StringItem(Base64Data), EmptyObjectItem, UrlItem(DataUrl)>>,
   <<Base64Item(Base64Data), UrlItem(<<>>)>>}

\* the bodies a client posts to /api/chat with history and images
HistoryChatBodies ==
  {[key \in {"message", "context", "conversationHistory", "images"} |->
      CASE key = "message" -> Str(<<"h", "i">>)
        [] key = "context" -> Str(<<"<">>)
        [] key = "conversationHistory" -> Array(h)
        [] OTHER -> Array(images)] : h \in Histories, images \in ImageLists}
  \cup {[key \in {"conversationHistory"} |-> Array(h)] : h \in Histories}

NextChat ==
  \/ \E body \in HistoryChatBodies : ChatStart(body)
  \/ ChatOpened
  \/ \E content \in FragmentContents : ChatChunk(content)
  \/ ChatEnd
  \/ \E e \in StreamErrors : ChatThrows(e)
  \/ Release

\* chat requests with history and images over the startup configuration
SpecChat == Init /\ [][NextChat]_vars

\* the configuration writes that race with analyze and chat requests
RaceConfigBodies ==
  {[key \in {"temperature"} |-> Num(5)],
   [key \in {"streaming"} |-> Bool(FALSE)],
   [key \in {"systemPrompt"} |-> Str(<<"X">>)]}

\* the chat requests that race with configuration writes: one for the
\* template path, one for the image path
RaceChatBodies ==
  {[key \in {"message", "context"} |->
      IF key = "message" THEN Str(<<"h", "i">>) ELSE Str(<<"<">>)],
   [key \in {"message", "context", "images"} |->
      CASE key = "message" -> Str(<<"h", "i">>)
        [] key = "context" -> Str(<<"<">>)
        [] OTHER -> ImageArray(1)]}

NextRace ==
  \/ \E body \in RaceConfigBodies : PutConfig(body, TRUE)
  \/ Complete
  \/ \E n \in {0, MaxFiles} : AnalyzeStart(n, TRUE, TRUE, {})
  \/ AnalyzeOpened
  \/ AnalyzeChunk("a")
  \/ AnalyzeEnd({})
  \/ \E e \in RaceErrors : AnalyzeThrows(e, {})
  \/ \E body \in RaceChatBodies : ChatStart(body)
  \/ ChatOpened
  \/ ChatChunk("a")
  \/ ChatEnd
  \/ \E e \in RaceErrors : ChatThrows(e)
  \/ Release

\* analyze and chat requests whose provider calls are in flight while a
\* configuration write is handled
SpecRace == Init /\ [][NextRace]_vars

----------------------------------------------------------------------------
(* Properties of the configuration write *)

\* the body of the write that the step being taken handles
IsWriteStep == req.op = "none" /\ req'.op = "PUT"

\* the value a body proposes for a numeric field differs from 1
ProposesNotOne(body, key) == Has(body, key) /\ ToNumber(body[key]) # Num(10)

\* the family of the model a write is validated against
RestrictedFamily(modelName) == IsOSeriesModel(ModelLower(modelName))

NoTopPFamily(modelName) ==
  IsGPT5Model(ModelLower(modelName)) /\ ~IsOSeriesModel(ModelLower(modelName))

\* C1: a PUT /api/llm-config answered with 400 leaves llmConfig, the
\* persisted file and the shared client as they were, so that the GET
\* response computed right after it is the one computed right before it.
C1_RejectedWriteChangesNothing ==
  [][(IsWriteStep /\ resp'.status = 400) =>
       /\ llmConfig' = llmConfig
       /\ file' = file
       /\ llm' = llm
       /\ ConfigResponse("GET", llmConfig') = ConfigResponse("GET", llmConfig)]_vars

\* a write rejected by the model-specific rules, after an earlier write had
\* already moved the configuration away from the defaults
C1_Witness ==
  /\ req.op = "PUT"
  /\ resp.status = 400
  /\ resp.error = <<"Model only supports topP=1. Other values are not allowed.">>
  /\ llmConfig # DefaultLlmConfig
  /\ file.exists

\* C2: a write whose effective model is in the restricted family is
\* rejected with 400 when it proposes temperature != 1 or topP != 1, and
\* when it is accepted the committed temperature and topP are both 1, also
\* when the body omitted them.
C2_RestrictedFamilyWrite ==
  [][(IsWriteStep /\ RestrictedFamily(EffectiveModelName(req'.body, llmConfig))) =>
       /\ (ProposesNotOne(req'.body, "temperature") \/ ProposesNotOne(req'.body, "topP"))
            => resp'.status = 400
       /\ resp'.status = 200 =>
            /\ Get(llmConfig', "temperature") = Num(10)
            /\ Get(llmConfig', "topP") = Num(10)]_vars

\* an accepted switch to a restricted model that proposed neither field
C2_Witness ==
  /\ req.op = "PUT"
  /\ resp.status = 200
  /\ Has(req.body, "modelName")
  /\ RestrictedFamily(req.body["modelName"])
  /\ ~Has(req.body, "temperature")
  /\ ~Has(req.body, "topP")
  /\ llmConfig["temperature"] = Num(10)
  /\ llmConfig["topP"] = Num(10)

\* the Model Capability Policy applied to a configuration record
SatisfiesPolicy(cfg) ==
  LET temperature == Get(cfg, "temperature")
      topP == Get(cfg, "topP")
  IN /\ temperature.k = "num" /\ temperature.n >= 0 /\ temperature.n <= 20
     /\ Has(cfg, "topP") => (topP.k = "num" /\ topP.n >= 0 /\ topP.n <= 10)
     /\ RestrictedFamily(Get(cfg, "modelName")) => (temperature = Num(10) /\ topP = Num(10))
     /\ NoTopPFamily(Get(cfg, "modelName")) => temperature = Num(10)

C4_NoTopPFamilyWrite ==
  [][(IsWriteStep /\ NoTopPFamily(EffectiveModelName(req'.body, llmConfig))) =>
       /\ ProposesNotOne(req'.body, "temperature") => resp'.status = 400
       /\ resp'.status = 200 => Get(llmConfig', "temperature") = Num(10)]_vars

\* an accepted switch to a gpt-5 model that proposed no temperature
C4_Witness ==
  /\ req.op = "PUT"
  /\ resp.status = 200
  /\ Has(req.body, "modelName")
  /\ NoTopPFamily(req.body["modelName"])
  /\ ~Has(req.body, "temperature")
  /\ llmConfig["temperature"] = Num(10)

\* C5: whenever the committed modelName is in the no-topP family the record
\* has no topP field: not in memory, not in the persisted file, not in the
\* GET, PUT and /health responses.
C5_NoTopPFieldForNoTopPFamily ==
  NoTopPFamily(Get(llmConfig, "modelName")) =>
    /\ ~Has(llmConfig, "topP")
    /\ (file.exists /\ file.data = JsonRoundTrip(ConfigToSave(llmConfig)))
         => ~Has(file.data, "topP")
    /\ (resp.op \in {"GET", "PUT", "HEALTH"} /\ resp.status = 200) => ~Has(resp.config, "topP")

\* C6: the config object of a GET /api/llm-config response and of a
\* successful PUT /api/llm-config response has no openAIApiKey field.
C6_NoCredentialInResponses ==
  (resp.op \in {"GET", "PUT"} /\ resp.status = 200) => ~Has(resp.config, "openAIApiKey")

RoundTripFields == {"modelName", "temperature", "topP", "streaming", "systemPrompt"}

\* a body made only of round-trip fields with values of their own type: a
\* standard-family model name, in-range numbers, a boolean, a string
IsRoundTripBody(body) ==
  /\ DOMAIN body # {}
  /\ DOMAIN body \subseteq RoundTripFields
  /\ Has(body, "modelName") =>
       /\ IsString(body["modelName"])
       /\ ~RestrictedFamily(body["modelName"])
       /\ ~NoTopPFamily(body["modelName"])
  /\ Has(body, "temperature") =>
       body["temperature"].k = "num" /\ ~OutOfRange(body["temperature"], 0, 20)
  /\ Has(body, "topP") => body["topP"].k = "num" /\ ~OutOfRange(body["topP"], 0, 10)
  /\ Has(body, "streaming") => body["streaming"].k = "bool"
  /\ Has(body, "systemPrompt") => IsString(body["systemPrompt"])

\* C8: after an accepted write of round-trip fields for a standard-family
\* model, the GET response computed with no intervening write returns the
\* written values of those fields and has no credential field.
C8_WriteReadRoundTrip ==
  (/\ req.op = "PUT"
   /\ resp.status = 200
   /\ IsRoundTripBody(req.body)
   /\ ~RestrictedFamily(Get(llmConfig, "modelName"))
   /\ ~NoTopPFamily(Get(llmConfig, "modelName"))) =>
    LET read == ConfigResponse("GET", llmConfig).config
    IN /\ \A key \in DOMAIN req.body : Has(read, key) /\ read[key] = req.body[key]
       /\ ~Has(read, "openAIApiKey")

----------------------------------------------------------------------------
(* Properties of the error translation *)

AllSitesTranslated == DOMAIN translated = {"analyze", "chatImage", "chatTemplate", "test"}

\* C9: one provider error is translated to the same message at the analyze
\* entry point, on both paths of the chat entry point and at the
\* config-test entry point.
C9_SameTranslationEverywhere ==
  AllSitesTranslated =>
    /\ translated["analyze"] = translated["chatImage"]
    /\ translated["chatImage"] = translated["chatTemplate"]
    /\ translated["chatTemplate"] = translated["test"]

\* the guidance a vision-unsupported error is to be translated to
VisionGuidance(e) == TestVisionMessage(e)

\* the first matching row of the translation table of the specification
TableMessage(e, cfg) ==
  IF e.status = 400 /\ e.code = "unsupported_value" /\ e.param = "stream"
  THEN AnalyzeOrgMessage
  ELSE IF e.status = 400 /\ e.code = "unsupported_value" /\ e.param = "temperature"
  THEN AnalyzeTemperatureMessage(cfg)
  ELSE IF /\ e.status = 400
          /\ e.code \in {"unsupported_parameter", "unsupported_value"}
          /\ e.param = "top_p"
  THEN TopPMessage
  ELSE IF Includes(e.message, VisionMarker) THEN VisionGuidance(e)
  ELSE IF e.status = 401 THEN ApiKeyMessage
  ELSE IF e.status = 429 THEN RateLimitMessage
  ELSE IF e.status = 503 THEN UnavailableMessage
  ELSE e.message

\* C10: at the analyze entry point the translation of a provider error is
\* the output of the first matching row of the table, the raw message being
\* passed through unmodified when no row matches.
C10_AnalyzeFollowsTable ==
  Has(translated, "analyze") => translated["analyze"] = TableMessage(err, llmConfig)

----------------------------------------------------------------------------
(* Properties of the config-test entry point *)

\* C11: a config-test request whose 15 seconds have elapsed has been
\* answered, whether the provider never returned a stream or returned one
\* and stalled: once the timer has fired the handler is no longer waiting.
C11_TestAnsweredWithinBound ==
  (run.op = "test" /\ run.timedOut) => run.pc = "done"

\* a step of the config-test handler, or the end of its exchange
IsTestStep == (run.op = "test" \/ run'.op = "test") /\ streamVars' # streamVars

\* C12: no step of a config-test request changes the in-memory
\* configuration, the persisted file or the shared provider client.
C12_TestLeavesStoreAlone == [][IsTestStep => UNCHANGED storeVars]_vars

\* a test has succeeded through a client of its own while the shared client
\* and the file hold a written configuration
C12_Witness ==
  /\ run.op = "test" /\ run.pc = "done" /\ ~run.failed
  /\ res.status = 200
  /\ run.client # llm
  /\ file.exists

----------------------------------------------------------------------------
(* Properties of the chat entry point *)

\* the step that takes a chat request up to its provider call
IsChatStartStep == run.op = "none" /\ run'.op = "chat" /\ run'.pc = "opening"

\* a value was supplied (set) and is not empty
Supplied(v) == Truthy(v)

\* the prompt the stated priority selects: override, server chatPrompt,
\* caller's systemPrompt, stored systemPrompt, built-in default
PriorityPrompt(body, cfg) ==
  CASE Supplied(Get(body, "promptOverride")) ->
         RenderPromptTemplate(Get(body, "promptOverride"), TemplateVariables(body))
    [] ~Supplied(Get(body, "promptOverride")) /\ Supplied(Get(cfg, "chatPrompt")) ->
         RenderPromptTemplate(Get(cfg, "chatPrompt"), TemplateVariables(body))
    [] OTHER ->
         IF Supplied(Get(body, "systemPrompt")) THEN Get(body, "systemPrompt")
         ELSE IF Supplied(Get(cfg, "systemPrompt")) THEN Get(cfg, "systemPrompt")
         ELSE Str(SYSTEM_PROMPT)

\* C13 as stated: the effective system prompt of a chat request is the one
\* the priority selects (rendered override, else rendered server chatPrompt,
\* else the caller's systemPrompt, else the stored one, default last).
C13_PromptPriority ==
  [][IsChatStartStep => run'.prompt = PriorityPrompt(run'.body, llmConfig)]_vars

\* the prompt the priority selects, replaced by the stored systemPrompt
\* (built-in default last) when it is empty
PriorityPromptOrStored(body, cfg) ==
  IF Truthy(PriorityPrompt(body, cfg)) THEN PriorityPrompt(body, cfg)
  ELSE IF Supplied(Get(cfg, "systemPrompt")) THEN Get(cfg, "systemPrompt")
  ELSE Str(SYSTEM_PROMPT)

\* C13 amended: the effective system prompt of a chat request is the one the
\* priority selects, except that an override or server chatPrompt that
\* renders to the empty string gives way to the stored systemPrompt.
C13_PromptPriorityOrStored ==
  [][IsChatStartStep => run'.prompt = PriorityPromptOrStored(run'.body, llmConfig)]_vars

\* a chat request carrying an override while a server chatPrompt is set runs
\* with the rendered override
C13_Witness ==
  /\ run.op = "chat" /\ run.pc = "opening"
  /\ Supplied(Get(run.body, "promptOverride"))
  /\ Supplied(Get(llmConfig, "chatPrompt"))
  /\ run.prompt = RenderPromptTemplate(Get(run.body, "promptOverride"), TemplateVariables(run.body))
  /\ run.prompt # RenderPromptTemplate(Get(llmConfig, "chatPrompt"), TemplateVariables(run.body))
  /\ Truthy(run.prompt)

\* C16: a chat request that failed, before the provider call or during it,
\* on the image path or the template path, is answered with the JSON error
\* object {success: false, error, errorType, errorCode, parameter, details}.
C16_FailedChatAnswer ==
  (run.op = "chat" /\ run.failed) =>
    /\ DOMAIN res.json = {"success", "error", "errorType", "errorCode", "parameter", "details"}
    /\ res.json["success"] = Bool(FALSE)

----------------------------------------------------------------------------
(* Properties of the analyze entry point *)

\* C14: when the handler of an analyze request has terminated, removal has
\* been attempted for every uploaded file, and a request that did not fail
\* has its complete 200 response whatever the removals did.
C14_CleanupAttemptedOnEveryPath ==
  (run.op = "analyze" /\ run.pc \in {"done", "crashed"}) =>
    /\ run.attempted = run.files
    /\ ~run.failed => (res.status = 200 /\ res.ended /\ res.json = EmptyObject)

\* a successful analyze of two photos one of which could not be removed
C14_Witness ==
  /\ run.op = "analyze" /\ run.pc = "done" /\ ~run.failed
  /\ Cardinality(run.files) = 2
  /\ Cardinality(run.removed) = 1
  /\ res.ended

\* C15: an analyze request that failed, before the provider call, when the
\* call was opened or after fragments were written, is answered with a
\* non-200 status and a plain-text body beginning "Analysis failed:".
C15_FailedAnalyzeAnswer ==
  (run.op = "analyze" /\ run.failed) =>
    /\ res.status # 200
    /\ Len(res.body) > 0
    /\ res.body[1] = "Analysis failed:\n\n"

----------------------------------------------------------------------------
(* Properties of the shared client and of the persist step *)

\* C17: after startup and after every accepted write the shared client's
\* model, streaming flag and temperature equal those of the committed
\* configuration, and so does its topP for a family that accepts topP.
C17_ClientMatchesConfig ==
  /\ llm["modelName"] = Get(llmConfig, "modelName")
  /\ llm["streaming"] = Get(llmConfig, "streaming")
  /\ llm["temperature"] = Get(llmConfig, "temperature")
  /\ ~NoTopPFamily(Get(llmConfig, "modelName")) =>
       (Has(llm, "topP") /\ llm["topP"] = Get(llmConfig, "topP"))

\* an accepted write of a temperature for a model other than the default one
C17_Witness ==
  /\ req.op = "PUT" /\ resp.status = 200
  /\ Has(req.body, "temperature")
  /\ llm["temperature"] = req.body["temperature"]
  /\ llm["temperature"] # DefaultLlmConfig["temperature"]
  /\ llm["modelName"] # DefaultLlmConfig["modelName"]
  /\ Has(llm, "topP")

\* the write being handled is accepted and the file does not hold the
\* configuration it commits: the durable store failed
StoreFailedStep ==
  /\ IsWriteStep
  /\ ValidateUpdate(llmConfig, req'.body).status # 400
  /\ file' # PersistConfig(llmConfig')

ProposesNonString(body) ==
  \E key \in {"modelName", "systemPrompt", "chatPrompt"} : Has(body, key) /\ ~IsString(body[key])

\* C19: a write proposing a non-string modelName, systemPrompt or chatPrompt
\* is rejected with 400, so that the stored modelName and systemPrompt are
\* strings and the stored chatPrompt is a string or unset.
C19_NonStringRejected ==
  /\ (req.op = "PUT" /\ ProposesNonString(req.body)) => resp.status = 400
  /\ IsString(Get(llmConfig, "modelName"))
  /\ IsString(Get(llmConfig, "systemPrompt"))
  /\ IsString(Get(llmConfig, "chatPrompt")) \/ Get(llmConfig, "chatPrompt") = Null

\* v is a number between lo and hi
IsNumberIn(v, lo, hi) == v.k = "num" /\ v.n >= lo /\ v.n <= hi

\* C20: a write proposing a temperature that is not a number in [0, 2] or a
\* topP that is not a number in [0, 1] is rejected with 400 whatever the
\* family, and the committed temperature is a number in [0, 2].
C20_OutOfDomainRejected ==
  /\ (/\ req.op = "PUT"
      /\ \/ Has(req.body, "temperature") /\ ~IsNumberIn(req.body["temperature"], 0, 20)
         \/ Has(req.body, "topP") /\ ~IsNumberIn(req.body["topP"], 0, 10)) =>
       resp.status = 400
  /\ IsNumberIn(Get(llmConfig, "temperature"), 0, 20)

----------------------------------------------------------------------------
(* Properties of the analyze stream *)

\* C21: while an analyze request has not failed, the chunks written to the
\* response are the fragments the provider has yielded so far, in the order
\* it yielded them, and the response is ended only once the provider's
\* stream is exhausted.
C21_FragmentsRelayedInOrder ==
  (run.op = "analyze" /\ ~run.failed) =>
    /\ res.body = run.content
    /\ res.ended => run.pc = "done"

\* a successful analyze whose provider yielded two different fragments
C21_Witness ==
  /\ run.op = "analyze" /\ run.pc = "done" /\ ~run.failed
  /\ Len(run.content) = 2
  /\ run.content[1] # run.content[2]
  /\ res.ended

\* C22: an analyze request whose handler has terminated, with photos or
\* with none, has a well-formed response: the handler did not end with an
\* uncaught exception and the response is ended.
C22_AnalyzeTerminatesWellFormed ==
  (run.op = "analyze" /\ run.pc \in {"done", "crashed"}) =>
    (run.pc = "done" /\ res.ended)

\* C23: the provider call an analyze request makes is the incremental one
\* when the client it goes through has streaming enabled and the one-shot
\* one when it has streaming disabled.
C23_AnalyzeModeFollowsStreamingFlag ==
  (run.op = "analyze" /\ run.pc \in {"opening", "streaming"}) =>
    run.path = IF Truthy(run.client["streaming"]) THEN "stream" ELSE "invoke"

----------------------------------------------------------------------------
(* Properties of requests racing with configuration writes *)

\* the step that takes an analyze request up to its provider call
IsAnalyzeStartStep == run.op = "none" /\ run'.op = "analyze" /\ run'.pc = "opening"

\* the settings a client sends to the provider
ClientSettings(client) ==
  [key \in (DOMAIN client) \cap {"modelName", "streaming", "temperature", "topP"} |-> client[key]]

\* C27: the provider call of an analyze or chat request is made through a
\* client whose settings are those of the configuration committed at that
\* moment and with the system prompt that same configuration gives, and it
\* keeps both while writes are committed during the call.
C27_PromptAndClientFromOneConfig ==
  [][/\ IsAnalyzeStartStep =>
          /\ ClientSettings(run'.client) = ClientSettings(InitLlm(llmConfig))
          /\ run'.prompt = IF Truthy(Get(llmConfig, "systemPrompt"))
                           THEN Get(llmConfig, "systemPrompt") ELSE Str(SYSTEM_PROMPT)
     /\ IsChatStartStep =>
          /\ ClientSettings(run'.client) = ClientSettings(InitLlm(llmConfig))
          /\ run'.prompt = PriorityPromptOrStored(run'.body, llmConfig)
     /\ (run.pc \in {"opening", "streaming"} /\ run'.pc \in {"opening", "streaming"}) =>
          (run'.client = run.client /\ run'.prompt = run.prompt)]_vars

\* an analyze call in flight with the prompt and the client of the
\* configuration it started under, after a write replaced both
C27_Witness ==
  /\ run.op = "analyze" /\ run.pc = "streaming"
  /\ run.client # llm
  /\ run.prompt # Get(llmConfig, "systemPrompt")
  /\ run.prompt = Str(SYSTEM_PROMPT)
  /\ ClientSettings(run.client) = ClientSettings(InitLlm(DefaultLlmConfig))

\* C28: the temperature an analyze request reports after the provider's
\* unsupported-temperature error is the temperature of the client the failed
\* call went through.
C28_ReportedTemperatureIsTheOneUsed ==
  (/\ run.op = "analyze" /\ run.failed
   /\ Len(res.body) >= 2
   /\ res.body[2] = "This model only supports temperature=1. Current configuration: ") =>
    SubSeq(res.body, 3, Len(res.body)) = TemplateString(run.client["temperature"])

----------------------------------------------------------------------------
(* Properties of the client and the answers of the config-test entry point *)

\* C24: the client a config-test builds has exactly the modelName,
\* streaming, temperature and topP the request body supplies, zero
\* included, and the config echoed by a success response equals them.
C24_TestUsesCandidateExactly ==
  (run.op = "test" /\ Truthy(Get(run.body, "modelName"))) =>
    /\ \A key \in (DOMAIN run.body) \cap {"modelName", "streaming", "temperature", "topP"} :
         run.client[key] = run.body[key]
    /\ (run.pc = "done" /\ ~run.failed) =>
         /\ res.json["config"]["model"] = run.body["modelName"]
         /\ \A key \in (DOMAIN run.body) \cap {"streaming", "temperature", "topP"} :
              res.json["config"][key] = run.body[key]

\* the error reported by a failed test is, or quotes, a provider message
\* carrying the vision-unsupported marker
ReportsVisionMarker == Includes(res.json["error"].s, VisionMarker)

\* the error reported by a failed test is the vision guidance
ReportsVisionGuidance ==
  /\ Len(res.json["error"].s) > 0
  /\ res.json["error"].s[1] = "This model does NOT support vision/image analysis."

\* C25: a failed config-test is flagged isVisionError and reports the vision
\* guidance exactly when the provider error carries the vision-unsupported
\* marker; any other failure is not flagged and reports its own message.
C25_VisionFlagExactlyOnMarker ==
  (run.op = "test" /\ run.failed) =>
    /\ (res.json["isVisionError"] = Bool(TRUE)) <=> ReportsVisionMarker
    /\ ReportsVisionGuidance <=> ReportsVisionMarker

\* C29: no provider call for a model of the no-topP family goes through a
\* client that carries topP, at the analyze, chat and config-test entry
\* points alike.
C29_NoTopPSentForNoTopPFamily ==
  (/\ run.op \in {"analyze", "chat", "test"}
   /\ run.pc \in {"opening", "streaming", "invoking"}
   /\ NoTopPFamily(run.client["modelName"])) =>
    ~Has(run.client, "topP")

----------------------------------------------------------------------------
(* Persist and reload *)

\* the step being taken is a restart of the server
IsRestartStep == req.op = "none" /\ req'.op = "none"

\* the file holds what the last accepted write stored of the configuration
\* in memory
StoredFaithfully == file = PersistConfig(llmConfig)

\* C30: a restart over the file that an accepted write stored successfully
\* yields the configuration that was in memory before the restart, field for
\* field, with the credential removed, an empty-string chatPrompt included.
C30_RestartRestoresStoredConfig ==
  [][(IsRestartStep /\ StoredFaithfully) =>
       llmConfig' = Delete(llmConfig, "openAIApiKey")]_vars

----------------------------------------------------------------------------
(* The messages of a chat request *)

\* an item of the images array that is an inline image: a non-empty string
\* or an object with a non-empty url or base64
IsInlineImage(img) == img.t \in {"string", "url", "base64"} /\ img.v # <<>>

\* the inline images a chat body carries, in their submitted order
SubmittedImages(body) ==
  LET images == Get(body, "images")
  IN IF images.k = "arr" THEN SelectSeq(images.s, IsInlineImage) ELSE <<>>

\* a history turn of a user or an assistant with non-blank content
IsKeptTurn(turn) ==
  /\ turn.role \in {"user", "assistant"}
  /\ IsString(turn.content)
  /\ \E i \in 1..Len(turn.content.s) : turn.content.s[i] \notin Whitespace

\* the history turns of a chat body that are to be sent, in submitted order
KeptTurns(body) ==
  LET history == Get(body, "conversationHistory")
  IN IF history.k = "arr" THEN SelectSeq(history.s, IsKeptTurn) ELSE <<>>

\* the messages after position from are the kept turns, in order
HistoryCarried(messages, from, kept) ==
  \A i \in 1..Len(kept) :
    /\ messages[from + i].role = (IF kept[i].role = "user" THEN "human" ELSE "ai")
    /\ messages[from + i].content = kept[i].content
    /\ messages[from + i].images = <<>>

\* the image parts are the submitted images, one part each, in order
ImagesCarried(parts, images) ==
  /\ Len(parts) = Len(images)
  /\ \A i \in 1..Len(images) :
       /\ parts[i][1] = "data:"
       /\ parts[i][Len(parts[i])] = images[i].v[Len(images[i].v)]

\* the text a string-or-missing field of the body contributes
FieldText(body, key) == IF Has(body, key) /\ IsString(body[key]) THEN body[key].s ELSE <<>>

\* C26: a chat request carrying at least one inline image makes the direct
\* call with the resolved system prompt, then the user and assistant turns
\* of non-blank content in submitted order, then one human message with the
\* text and all images; a request without one goes through the template with
\* the system prompt, the context message, the same history and the text.
C26_ChatMessages ==
  (run.op = "chat" /\ run.path # "") =>
    LET kept == KeptTurns(run.body)
        images == SubmittedImages(run.body)
        m == run.messages
        last == m[Len(m)]
    IN IF Len(images) > 0
       THEN /\ run.path = "image"
            /\ Len(m) = Len(kept) + 2
            /\ m[1] = Message("system", run.prompt, <<>>)
            /\ HistoryCarried(m, 1, kept)
            /\ last.role = "human"
            /\ last.content.s = FieldText(run.body, "message")
            /\ ImagesCarried(last.images, images)
       ELSE /\ run.path = "template"
            /\ Len(m) = Len(kept) + 3
            /\ m[1] = Message("system", run.prompt, <<>>)
            /\ m[2].role = "system"
            /\ m[2].content.s =
                 <<"Context from previous analysis: ">> \o FieldText(run.body, "context")
            /\ HistoryCarried(m, 2, kept)
            /\ last = Message("human", Str(FieldText(run.body, "message")), <<>>)

\* a chat request with two kept turns of different roles and an images array
\* of which one item is not an image has been answered over the direct call
C26_Witness ==
  /\ run.op = "chat" /\ run.pc = "done" /\ ~run.failed
  /\ run.path = "image"
  /\ Len(KeptTurns(run.body)) = 2
  /\ KeptTurns(run.body)[1].role # KeptTurns(run.body)[2].role
  /\ Len(SubmittedImages(run.body)) = 2
  /\ run.body["images"].n = 3

====
